---- MODULE Spec2Model ----
(***************************************************************************)
(* Model of the CPU scheduling simulators of Project1/main.go:             *)
(* FCFSSchedule, SJFSchedule, SJFPrioritySchedule and RRSchedule.          *)
(*                                                                         *)
(* One scheduler call is one run of the model: Init draws the scheduler    *)
(* and the process list, the Call action runs the code before the main     *)
(* loop, every Step action is one iteration of the loop, and the Return    *)
(* action is the code after the loop (the arguments handed to the output   *)
(* helpers).                                                               *)
(*                                                                         *)
(* Go slices are 0-indexed, TLA+ sequences 1-indexed: index k of the model *)
(* is index k-1 of the code.  The code's "no index" value -1 is kept.      *)
(* A schedule row is the 7 columns of the code's []string, kept as the     *)
(* integers that fmt.Sprint prints; the nil row is the empty sequence.     *)
(***************************************************************************)
EXTENDS Integers, Sequences, FiniteSets, TLC

\* ---------------------------------------------------------------- bounds
MaxProcs == 2
MaxBurst == 2
MaxArrival == 2

\* The priority column holds one of two levels (lower value = higher priority).
PriorityLevels == {0, 1}

\* ------------------------------------------------------ program constants
\* leastJobBurstTime := 100000000 // INT_MAX   (also leastJobPriority)
INT_MAX == 100000000

NoIndex == 0 - 1

VARIABLES
  alg,               \* which scheduler is called
  pc,                \* "call", "loop", "scan" (RR inner loop), "done"
  input,             \* the process list as the caller passed it
  processes,         \* the caller's slice (RRSchedule writes to it)
  i,                 \* loop index of FCFSSchedule / RRSchedule's inner loop
  timestep,
  totalBurstTime,
  processBurstLeft,
  processBurstInit,
  lastGantIndex,
  lastGantStartTime,
  serviceTime,
  waitingTime,
  ranProcess,
  totalWait,
  totalTurnaround,
  lastCompletion,
  schedule,
  gantt,
  stats,             \* the three aggregates handed to outputSchedule
  ticks,             \* history: per elapsed timestep, what ran and the remaining bursts before it
  prev               \* history: the outcome of the previous call on the same list, if any

vars == <<alg, pc, input, processes, i, timestep, totalBurstTime, processBurstLeft,
          processBurstInit, lastGantIndex, lastGantStartTime, serviceTime, waitingTime,
          ranProcess, totalWait, totalTurnaround, lastCompletion, schedule, gantt,
          stats, ticks, prev>>

\* ------------------------------------------------------------------ types
Process(id, burst, arrival, priority) ==
  [ProcessID |-> id, ArrivalTime |-> arrival, BurstDuration |-> burst, Priority |-> priority]

TimeSlice(pid, start, stop) == [PID |-> pid, Start |-> start, Stop |-> stop]

\* The row literal of the schedulers: ID, Priority, Burst, Arrival, Wait, Turnaround, Exit.
Row(p, burst, wait, turnaround, exit) ==
  <<p.ProcessID, p.Priority, burst, p.ArrivalTime, wait, turnaround, exit>>

RowBurst(r) == r[3]
RowArrival(r) == r[4]
RowWait(r) == r[5]
RowTurnaround(r) == r[6]
RowExit(r) == r[7]

\* make([][]string, n): n nil rows.
NilRows(n) == [k \in 1..n |-> <<>>]

\* A float64 division x / y, kept as the pair it is computed from.
Ratio(x, y) == <<x, y>>

RECURSIVE SumBursts(_, _)
SumBursts(procs, k) ==
  IF k = 0 THEN 0 ELSE SumBursts(procs, k - 1) + procs[k].BurstDuration

Bursts(procs) == [k \in 1..Len(procs) |-> procs[k].BurstDuration]

\* ----------------------------------------------------------------- inputs
Schedulers == {"FCFS", "SJF", "SJFPriority", "RR"}

\* loadProcesses: Priority is read only from a 4-column row, else it stays 0.
\* Only SJFPrioritySchedule reads it, so only its inputs carry a priority column.
Priorities(a) == IF a = "SJFPriority" THEN PriorityLevels ELSE {0}

\* The process list of n rows with the given columns; ids are 11, 12, ...
Loaded(n, b, ar, pr) == [k \in 1..n |-> Process(10 + k, b[k], ar[k], pr[k])]

\* The three worked examples of the specification, and a list with an idle gap
\* before the first arrival, a preemption point and an idle gap between arrivals.
FCFSExample == <<Process(11, 3, 0, 0), Process(12, 4, 0, 0), Process(13, 2, 0, 0)>>
SJFExample == <<Process(1, 5, 0, 0), Process(2, 3, 1, 0), Process(3, 2, 2, 0)>>
IdleGapExample == <<Process(11, 2, 0, 0), Process(12, 2, 5, 0)>>
GapsExample == <<Process(11, 2, 1, 1), Process(12, 1, 2, 0), Process(13, 2, 6, 0)>>

\* A list whose last element arrives before two earlier elements of equal arrival.
SortExample == <<Process(11, 1, 1, 0), Process(12, 1, 1, 0), Process(13, 1, 0, 0)>>

ExampleInputs == {FCFSExample, SJFExample, IdleGapExample, GapsExample, SortExample}

N == Len(processes)

Init ==
  /\ alg \in Schedulers
  /\ \/ input \in ExampleInputs
     \/ \E n \in 0..MaxProcs :
          \E b \in [1..n -> 1..MaxBurst], ar \in [1..n -> 0..MaxArrival],
             pr \in [1..n -> Priorities(alg)] :
            input = Loaded(n, b, ar, pr)
  /\ processes = input
  /\ pc = "call"
  /\ i = 0
  /\ timestep = 0
  /\ totalBurstTime = 0
  /\ processBurstLeft = <<>>
  /\ processBurstInit = <<>>
  /\ lastGantIndex = NoIndex
  /\ lastGantStartTime = 0
  /\ serviceTime = 0
  /\ waitingTime = 0
  /\ ranProcess = FALSE
  /\ totalWait = 0
  /\ totalTurnaround = 0
  /\ lastCompletion = 0
  /\ schedule = <<>>
  /\ gantt = <<>>
  /\ stats = <<>>
  /\ ticks = <<>>
  /\ prev = <<>>

\* ------------------------------------------------------------ SJFSchedule
\* A scan that lets a later process of equal remaining burst take over.
SJFNotShorterStrict(left, best) == left > best

\* "shortest job?" test of the scan, line 267
SJFNotShorter(left, best) == left >= best

\* A process that counts as arrived one timestep early.
NotArrivedLax(p, t) == p.ArrivalTime > t + 1

\* "make sure the process has arrived", line 262
NotArrived(p, t) == p.ArrivalTime > t

\* The scan "find shortest current process": the value of leastJobIndex after it.
RECURSIVE SJFScan(_, _, _, _, _, _)
SJFScan(procs, left, t, k, leastJobIndex, leastJobBurstTime) ==
  IF k > Len(procs) THEN leastJobIndex
  ELSE IF left[k] <= 0 THEN SJFScan(procs, left, t, k + 1, leastJobIndex, leastJobBurstTime)
  ELSE IF NotArrived(procs[k], t)
         THEN SJFScan(procs, left, t, k + 1, leastJobIndex, leastJobBurstTime)
  ELSE IF SJFNotShorter(left[k], leastJobBurstTime)
         THEN SJFScan(procs, left, t, k + 1, leastJobIndex, leastJobBurstTime)
  ELSE SJFScan(procs, left, t, k + 1, k, left[k])

SJFSelect(procs, left, t) == SJFScan(procs, left, t, 1, NoIndex, INT_MAX)

\* A slice closed one timestep late.
CloseSliceLate(procs, last, start, t) == TimeSlice(procs[last].ProcessID, start, t + 1)

\* The slice appended when the running process changes.
CloseSlice(procs, last, start, t) == TimeSlice(procs[last].ProcessID, start, t)

\* An idle tick that leaves the loop bound alone.
IdleNoExtend(total) == total

\* The idle tick: totalBurstTime++
IdleExtend(total) == total + 1

SJFCall ==
  /\ pc = "call" /\ alg = "SJF"
  /\ totalBurstTime' = SumBursts(processes, N)
  /\ processBurstLeft' = Bursts(processes)
  /\ schedule' = NilRows(N)
  /\ gantt' = <<>>
  /\ lastGantIndex' = NoIndex
  /\ lastGantStartTime' = 0
  /\ timestep' = 0
  /\ pc' = "loop"
  /\ UNCHANGED <<prev, alg, input, processes, i, processBurstInit, serviceTime, waitingTime,
                 ranProcess, totalWait, totalTurnaround, lastCompletion, stats, ticks>>

\* A completion test that fires one unit early as well.
JobDoneEarly(left) == left <= 1

\* "is job done?", line 295
JobDone(left) == left = 0

\* A decrement made on the caller's record as well as on the working copy.
AfterRunInPlace(procs, k) == [procs EXCEPT ![k].BurstDuration = @ - 1]

\* line 293: the decrement is made on processBurstLeft, the caller's list stays as it is
AfterRun(procs, k) == procs

\* "is job done?" block shared in text by SJFSchedule and SJFPrioritySchedule:
\* the effect of running process k at timestep t.
RunJob(k, t) ==
  LET left == [processBurstLeft EXCEPT ![k] = @ - 1]
      p == processes[k]
      waitTime == (t + 1) - p.ArrivalTime - p.BurstDuration
  IN /\ processBurstLeft' = left
     /\ processes' = AfterRun(processes, k)
     /\ IF JobDone(left[k])
          THEN /\ totalTurnaround' = totalTurnaround + ((t + 1) - p.ArrivalTime)
               /\ totalWait' = totalWait + waitTime
               /\ schedule' = [schedule EXCEPT ![k] =
                                 Row(p, p.BurstDuration, waitTime, (t + 1) - p.ArrivalTime, t + 1)]
               /\ lastCompletion' = p.BurstDuration + p.ArrivalTime + waitTime
          ELSE UNCHANGED <<totalTurnaround, totalWait, schedule, lastCompletion>>

SJFStep ==
  /\ pc = "loop" /\ alg = "SJF"
  /\ timestep < totalBurstTime
  /\ LET leastJobIndex == SJFSelect(processes, processBurstLeft, timestep)
         newSlice == lastGantIndex # leastJobIndex \/ timestep = totalBurstTime - 1
     IN /\ gantt' = IF newSlice /\ lastGantIndex # NoIndex
                      THEN Append(gantt, CloseSlice(processes, lastGantIndex,
                                                    lastGantStartTime, timestep))
                      ELSE gantt
        /\ lastGantStartTime' = IF newSlice THEN timestep ELSE lastGantStartTime
        /\ lastGantIndex' = IF newSlice THEN leastJobIndex ELSE lastGantIndex
        /\ ticks' = Append(ticks, [sel |-> leastJobIndex, left |-> processBurstLeft])
        /\ IF leastJobIndex = NoIndex
             THEN /\ totalBurstTime' = IdleExtend(totalBurstTime)
                  /\ UNCHANGED <<processes, processBurstLeft, totalTurnaround, totalWait,
                                 schedule, lastCompletion>>
             ELSE /\ RunJob(leastJobIndex, timestep)
                  /\ UNCHANGED totalBurstTime
  /\ timestep' = timestep + 1
  /\ UNCHANGED <<prev, alg, pc, input, i, processBurstInit, serviceTime, waitingTime,
                 ranProcess, stats>>

SJFReturn ==
  /\ pc = "loop" /\ alg = "SJF"
  /\ ~(timestep < totalBurstTime)
  /\ stats' = <<Ratio(totalWait, N), Ratio(totalTurnaround, N), Ratio(lastCompletion, N)>>
  /\ pc' = "done"
  /\ UNCHANGED <<prev, alg, input, processes, i, timestep, totalBurstTime, processBurstLeft,
                 processBurstInit, lastGantIndex, lastGantStartTime, serviceTime,
                 waitingTime, ranProcess, totalWait, totalTurnaround, lastCompletion,
                 schedule, gantt, ticks>>

\* ---------------------------------------------------- SJFPrioritySchedule
\* "shortest job?" test of the scan, line 178
PriorityNotShorter(left, best) == left >= best

\* A scan without the guard of line 165.
PriorityWorseDropped(priority, leastJobPriority) == FALSE

\* line 165: a process of a higher priority value than the best so far is skipped
PriorityWorse(priority, leastJobPriority) == priority > leastJobPriority

\* line 172: the burst recorded for a process that takes the lead by priority
LeadBurst(p, left) == p.BurstDuration

\* The scan of SJFPrioritySchedule: the value of leastJobIndex after it.
RECURSIVE PriorityScan(_, _, _, _, _, _, _)
PriorityScan(procs, left, t, k, leastJobIndex, leastJobBurstTime, leastJobPriority) ==
  IF k > Len(procs) THEN leastJobIndex
  ELSE IF left[k] <= 0
         THEN PriorityScan(procs, left, t, k + 1, leastJobIndex, leastJobBurstTime,
                           leastJobPriority)
  ELSE IF procs[k].ArrivalTime > t
         THEN PriorityScan(procs, left, t, k + 1, leastJobIndex, leastJobBurstTime,
                           leastJobPriority)
  ELSE IF PriorityWorse(procs[k].Priority, leastJobPriority)
         THEN PriorityScan(procs, left, t, k + 1, leastJobIndex, leastJobBurstTime,
                           leastJobPriority)
  ELSE IF procs[k].Priority < leastJobPriority
         THEN PriorityScan(procs, left, t, k + 1, k, LeadBurst(procs[k], left[k]),
                           procs[k].Priority)
  ELSE IF PriorityNotShorter(left[k], leastJobBurstTime)
         THEN PriorityScan(procs, left, t, k + 1, leastJobIndex, leastJobBurstTime,
                           leastJobPriority)
  ELSE PriorityScan(procs, left, t, k + 1, k, left[k], procs[k].Priority)

PrioritySelect(procs, left, t) == PriorityScan(procs, left, t, 1, NoIndex, INT_MAX, INT_MAX)

SJFPriorityCall ==
  /\ pc = "call" /\ alg = "SJFPriority"
  /\ totalBurstTime' = SumBursts(processes, N)
  /\ processBurstLeft' = Bursts(processes)
  /\ schedule' = NilRows(N)
  /\ gantt' = <<>>
  /\ lastGantIndex' = NoIndex
  /\ lastGantStartTime' = 0
  /\ timestep' = 0
  /\ pc' = "loop"
  /\ UNCHANGED <<prev, alg, input, processes, i, processBurstInit, serviceTime, waitingTime,
                 ranProcess, totalWait, totalTurnaround, lastCompletion, stats, ticks>>

SJFPriorityStep ==
  /\ pc = "loop" /\ alg = "SJFPriority"
  /\ timestep < totalBurstTime
  /\ LET leastJobIndex == PrioritySelect(processes, processBurstLeft, timestep)
         newSlice == lastGantIndex # leastJobIndex \/ timestep = totalBurstTime - 1
     IN /\ ticks' = Append(ticks, [sel |-> leastJobIndex, left |-> processBurstLeft])
        /\ IF leastJobIndex = NoIndex
             THEN /\ totalBurstTime' = IdleExtend(totalBurstTime)
                  /\ UNCHANGED <<processes, gantt, lastGantStartTime, lastGantIndex,
                                 processBurstLeft, totalTurnaround, totalWait, schedule,
                                 lastCompletion>>
             ELSE /\ gantt' = IF newSlice /\ lastGantIndex # NoIndex
                                THEN Append(gantt, CloseSlice(processes, lastGantIndex,
                                                              lastGantStartTime, timestep))
                                ELSE gantt
                  /\ lastGantStartTime' = IF newSlice THEN timestep ELSE lastGantStartTime
                  /\ lastGantIndex' = IF newSlice THEN leastJobIndex ELSE lastGantIndex
                  /\ RunJob(leastJobIndex, timestep)
                  /\ UNCHANGED totalBurstTime
  /\ timestep' = timestep + 1
  /\ UNCHANGED <<prev, alg, pc, input, i, processBurstInit, serviceTime, waitingTime,
                 ranProcess, stats>>

SJFPriorityReturn ==
  /\ pc = "loop" /\ alg = "SJFPriority"
  /\ ~(timestep < totalBurstTime)
  /\ stats' = <<Ratio(totalWait, N), Ratio(totalTurnaround, N), Ratio(lastCompletion, N)>>
  /\ pc' = "done"
  /\ UNCHANGED <<prev, alg, input, processes, i, timestep, totalBurstTime, processBurstLeft,
                 processBurstInit, lastGantIndex, lastGantStartTime, serviceTime,
                 waitingTime, ranProcess, totalWait, totalTurnaround, lastCompletion,
                 schedule, gantt, ticks>>

\* ----------------------------------------------------------- FCFSSchedule
\* lines 89-91: waitingTime is declared outside the loop and assigned only when
\* the process's ArrivalTime is positive; otherwise it keeps its previous value.
FCFSWait(p, service, waiting) ==
  IF p.ArrivalTime > 0 THEN service - p.ArrivalTime ELSE waiting

\* lines 113-117: the slice of process p, built after serviceTime += BurstDuration
FCFSSlice(p, start, service) == TimeSlice(p.ProcessID, start, service)

FCFSCall ==
  /\ pc = "call" /\ alg = "FCFS"
  /\ serviceTime' = 0
  /\ totalWait' = 0
  /\ totalTurnaround' = 0
  /\ lastCompletion' = 0
  /\ waitingTime' = 0
  /\ schedule' = NilRows(N)
  /\ gantt' = <<>>
  /\ i' = 1
  /\ pc' = "loop"
  /\ UNCHANGED <<prev, alg, input, processes, timestep, totalBurstTime, processBurstLeft,
                 processBurstInit, lastGantIndex, lastGantStartTime, ranProcess, stats,
                 ticks>>

FCFSStep ==
  /\ pc = "loop" /\ alg = "FCFS"
  /\ i <= N
  /\ LET p == processes[i]
         w == FCFSWait(p, serviceTime, waitingTime)
         start == w + p.ArrivalTime
         turnaround == p.BurstDuration + w
         completion == p.BurstDuration + p.ArrivalTime + w
     IN /\ waitingTime' = w
        /\ totalWait' = totalWait + w
        /\ totalTurnaround' = totalTurnaround + turnaround
        /\ lastCompletion' = completion
        /\ schedule' = [schedule EXCEPT ![i] = Row(p, p.BurstDuration, w, turnaround, completion)]
        /\ serviceTime' = serviceTime + p.BurstDuration
        /\ gantt' = Append(gantt, FCFSSlice(p, start, serviceTime + p.BurstDuration))
  /\ i' = i + 1
  /\ UNCHANGED <<prev, alg, pc, input, processes, timestep, totalBurstTime, processBurstLeft,
                 processBurstInit, lastGantIndex, lastGantStartTime, ranProcess, stats,
                 ticks>>

FCFSReturn ==
  /\ pc = "loop" /\ alg = "FCFS"
  /\ i > N
  /\ stats' = <<Ratio(totalWait, N), Ratio(totalTurnaround, N), Ratio(N, lastCompletion)>>
  /\ pc' = "done"
  /\ UNCHANGED <<prev, alg, input, processes, i, timestep, totalBurstTime, processBurstLeft,
                 processBurstInit, lastGantIndex, lastGantStartTime, serviceTime,
                 waitingTime, ranProcess, totalWait, totalTurnaround, lastCompletion,
                 schedule, gantt, ticks>>

\* ------------------------------------------------------------- RRSchedule
Swap(procs, a, b) == [procs EXCEPT ![a] = procs[b], ![b] = procs[a]]

\* lines 333-337: the inner loop  for j := i; j < len; j++  of the reordering
RECURSIVE RRSortInner(_, _, _)
RRSortInner(procs, a, b) ==
  IF b > Len(procs) THEN procs
  ELSE IF procs[a].ArrivalTime > procs[b].ArrivalTime
         THEN RRSortInner(Swap(procs, a, b), a, b + 1)
         ELSE RRSortInner(procs, a, b + 1)

\* lines 332-338: the outer loop  for i := range processes
RECURSIVE RRSortOuter(_, _)
RRSortOuter(procs, a) ==
  IF a > Len(procs) THEN procs ELSE RRSortOuter(RRSortInner(procs, a, a), a + 1)

\* A call that leaves the list in the caller's order.
RRNoSort(procs) == procs

RRSort(procs) == RRSortOuter(procs, 1)

\* A slice that runs one unit past the current time.
RRSliceWide(p, t) == TimeSlice(p.ProcessID, t - 1, t + 1)

\* lines 370-374: the slice of one unit of round-robin time, built after timestep++
RRSlice(p, t) == TimeSlice(p.ProcessID, t - 1, t)

RRCall ==
  /\ pc = "call" /\ alg = "RR"
  /\ processes' = RRSort(processes)
  /\ processBurstInit' = Bursts(processes')
  /\ totalBurstTime' = SumBursts(processes', N)
  /\ schedule' = NilRows(N)
  /\ gantt' = <<>>
  /\ timestep' = 0
  /\ pc' = "loop"
  /\ UNCHANGED <<prev, alg, input, i, processBurstLeft, lastGantIndex, lastGantStartTime,
                 serviceTime, waitingTime, ranProcess, totalWait, totalTurnaround,
                 lastCompletion, stats, ticks>>

\* line 345-347: the loop condition holds, a pass over the list begins
RRPassBegin ==
  /\ pc = "loop" /\ alg = "RR"
  /\ timestep < totalBurstTime
  /\ ranProcess' = FALSE
  /\ i' = 1
  /\ pc' = "scan"
  /\ UNCHANGED <<prev, alg, input, processes, timestep, totalBurstTime, processBurstLeft,
                 processBurstInit, lastGantIndex, lastGantStartTime, serviceTime,
                 waitingTime, totalWait, totalTurnaround, lastCompletion, schedule, gantt,
                 stats, ticks>>

\* lines 347-376: one iteration of the inner loop
RRScanStep ==
  /\ pc = "scan" /\ alg = "RR"
  /\ i <= N
  /\ LET p == processes[i]
     IN IF p.ArrivalTime > timestep \/ p.BurstDuration <= 0
          THEN UNCHANGED <<processes, timestep, ranProcess, schedule, gantt, ticks>>
          ELSE LET t == timestep + 1
               IN /\ processes' = [processes EXCEPT ![i].BurstDuration = @ - 1]
                  /\ timestep' = t
                  /\ ranProcess' = TRUE
                  /\ schedule' = [schedule EXCEPT ![i] =
                                    Row(p, processBurstInit[i],
                                        (t + 1) - p.ArrivalTime - processBurstInit[i],
                                        (t + 1) - p.ArrivalTime, t + 1)]
                  /\ gantt' = Append(gantt, RRSlice(p, t))
                  /\ ticks' = Append(ticks, [sel |-> i, left |-> Bursts(processes)])
  /\ i' = i + 1
  /\ UNCHANGED <<prev, alg, pc, input, totalBurstTime, processBurstLeft, processBurstInit,
                 lastGantIndex, lastGantStartTime, serviceTime, waitingTime, totalWait,
                 totalTurnaround, lastCompletion, stats>>

\* lines 378-383: the end of a pass
RRPassEnd ==
  /\ pc = "scan" /\ alg = "RR"
  /\ i > N
  /\ IF ~ranProcess
       THEN /\ timestep' = timestep + 1
            /\ totalBurstTime' = IdleExtend(totalBurstTime)
            /\ ticks' = Append(ticks, [sel |-> NoIndex, left |-> Bursts(processes)])
       ELSE UNCHANGED <<timestep, totalBurstTime, ticks>>
  /\ pc' = "loop"
  /\ UNCHANGED <<prev, alg, input, processes, i, processBurstLeft, processBurstInit,
                 lastGantIndex, lastGantStartTime, serviceTime, waitingTime, ranProcess,
                 totalWait, totalTurnaround, lastCompletion, schedule, gantt, stats>>

RRReturn ==
  /\ pc = "loop" /\ alg = "RR"
  /\ ~(timestep < totalBurstTime)
  /\ stats' = <<Ratio(0, 1), Ratio(0, 1), Ratio(0, 1)>>
  /\ pc' = "done"
  /\ UNCHANGED <<prev, alg, input, processes, i, timestep, totalBurstTime, processBurstLeft,
                 processBurstInit, lastGantIndex, lastGantStartTime, serviceTime,
                 waitingTime, ranProcess, totalWait, totalTurnaround, lastCompletion,
                 schedule, gantt, ticks>>

\* ---------------------------------------------------------- specification
Next ==
  \/ FCFSCall \/ FCFSStep \/ FCFSReturn
  \/ SJFCall \/ SJFStep \/ SJFReturn
  \/ SJFPriorityCall \/ SJFPriorityStep \/ SJFPriorityReturn
  \/ RRCall \/ RRPassBegin \/ RRScanStep \/ RRPassEnd \/ RRReturn

Spec == Init /\ [][Next]_vars

\* The scheduler is a sequential program: it always takes its next step.
FairSpec == Spec /\ WF_vars(Next)

\* main calls the schedulers one after the other on the same slice: after a
\* call has returned, a second call is made with the list as the first left it.
Recall ==
  /\ pc = "done" /\ prev = <<>>
  /\ prev' = <<[alg |-> alg, input |-> input, schedule |-> schedule, gantt |-> gantt]>>
  /\ alg' \in Schedulers
  /\ input' = processes
  /\ pc' = "call"
  /\ i' = 0
  /\ timestep' = 0
  /\ totalBurstTime' = 0
  /\ processBurstLeft' = <<>>
  /\ processBurstInit' = <<>>
  /\ lastGantIndex' = NoIndex
  /\ lastGantStartTime' = 0
  /\ serviceTime' = 0
  /\ waitingTime' = 0
  /\ ranProcess' = FALSE
  /\ totalWait' = 0
  /\ totalTurnaround' = 0
  /\ lastCompletion' = 0
  /\ schedule' = <<>>
  /\ gantt' = <<>>
  /\ stats' = <<>>
  /\ ticks' = <<>>
  /\ UNCHANGED processes

NextRecall == Next \/ Recall

SpecRecall == Init /\ [][NextRecall]_vars

\* ================================================================ claims
Preemptive == {"SJF", "SJFPriority"}

\* The processes eligible at timestep t, given the remaining bursts.
Eligible(procs, left, t) ==
  {k \in 1..Len(procs) : procs[k].ArrivalTime <= t /\ left[k] > 0}

\* Tick number n of the history is timestep n - 1.
TickTime(n) == n - 1

\* The remaining bursts after tick n.
CurrentLeft == IF alg = "RR" THEN Bursts(processes) ELSE processBurstLeft
LeftAfter(n) == IF n < Len(ticks) THEN ticks[n + 1].left ELSE CurrentLeft

\* What tick n decremented: the processes whose remaining burst changed.
Changed(n) == {k \in 1..Len(input) : LeftAfter(n)[k] # ticks[n].left[k]}

DecrementsOnly(n, k) ==
  /\ Changed(n) = {k}
  /\ LeftAfter(n)[k] = ticks[n].left[k] - 1

IdleTick(n) == ticks[n].sel = NoIndex

\* The choice the shortest-remaining-burst rule prescribes among the set E.
ShortestFirst(E, left) ==
  CHOOSE k \in E : \A m \in E : left[k] < left[m] \/ (left[k] = left[m] /\ k <= m)

\* The choice the two-level rule prescribes: priority, then remaining burst, then index.
LowestPriority(procs, E) == {k \in E : \A m \in E : procs[k].Priority <= procs[m].Priority}
PriorityFirst(procs, E, left) == ShortestFirst(LowestPriority(procs, E), left)

C2_PrioritySelection ==
  alg = "SJFPriority" =>
    \A n \in 1..Len(ticks) :
      LET E == Eligible(input, ticks[n].left, TickTime(n))
      IN E # {} => /\ ticks[n].sel = PriorityFirst(input, E, ticks[n].left)
                   /\ DecrementsOnly(n, ticks[n].sel)

\* C3: the process SJFPrioritySchedule decrements at a timestep has the
\* minimum priority value among the processes eligible at that timestep.
C3_LowestPriorityRuns ==
  alg = "SJFPriority" =>
    \A n \in 1..Len(ticks) :
      LET E == Eligible(input, ticks[n].left, TickTime(n))
      IN E # {} => /\ ticks[n].sel \in LowestPriority(input, E)
                   /\ DecrementsOnly(n, ticks[n].sel)

\* A timestep of SJFPrioritySchedule at which the process that ran had a lower
\* priority value and a longer remaining burst than another eligible process.
C3_Witness ==
  /\ alg = "SJFPriority"
  /\ \E n \in 1..Len(ticks) :
       /\ ~IdleTick(n)
       /\ \E m \in Eligible(input, ticks[n].left, TickTime(n)) :
            /\ input[m].Priority > input[ticks[n].sel].Priority
            /\ ticks[n].left[m] < ticks[n].left[ticks[n].sel]

RECURSIVE SumSlices(_, _)
SumSlices(g, k) == IF k = 0 THEN 0 ELSE SumSlices(g, k - 1) + (g[k].Stop - g[k].Start)

\* C4: when SJFSchedule or SJFPrioritySchedule returns, the slice durations of
\* the Gantt timeline add up to the sum of the burst durations.
C4_WorkConserved ==
  (alg \in Preemptive /\ pc = "done") =>
    SumSlices(gantt, Len(gantt)) = SumBursts(input, Len(input))

\* C5: every row written by FCFSSchedule, SJFSchedule and SJFPrioritySchedule
\* has waitTime >= 0 and turnaroundTime = waitTime + burstDuration.
C5_RowsConsistent ==
  alg \in {"FCFS", "SJF", "SJFPriority"} =>
    \A k \in 1..Len(schedule) :
      schedule[k] # <<>> =>
        /\ RowWait(schedule[k]) >= 0
        /\ RowTurnaround(schedule[k]) = RowWait(schedule[k]) + RowBurst(schedule[k])

AllFinished ==
  /\ Len(processBurstLeft) = Len(input)
  /\ Len(schedule) = Len(input)
  /\ \A k \in 1..Len(input) : processBurstLeft[k] = 0 /\ schedule[k] # <<>>

Max(a, b) == IF a >= b THEN a ELSE b

\* C7: FCFSSchedule gives process k, with s the sum of the bursts before it,
\* waitTime = max(0, s - arrival), start = waitTime + arrival and completion =
\* burst + arrival + waitTime; on bursts 3,4,2 all arriving at 0 the
\* completions are 3,7,9.
C7_FCFSFormulas ==
  alg = "FCFS" =>
    /\ \A k \in 1..Len(gantt) :
         LET w == Max(0, SumBursts(input, k - 1) - input[k].ArrivalTime)
         IN /\ RowWait(schedule[k]) = w
            /\ gantt[k].Start = w + input[k].ArrivalTime
            /\ RowExit(schedule[k]) = input[k].BurstDuration + input[k].ArrivalTime + w
    /\ (input = FCFSExample /\ pc = "done") =>
         /\ <<RowExit(schedule[1]), RowExit(schedule[2]), RowExit(schedule[3])>> = <<3, 7, 9>>
         /\ RowWait(schedule[1]) = 0

\* C8: FCFSSchedule emits one slice per process in input order, of length
\* burstDuration, stopping at the completionTime of the process's row, and
\* the slices have non-decreasing start and do not overlap.
C8_FCFSSlices ==
  alg = "FCFS" =>
    /\ pc = "done" => Len(gantt) = Len(input)
    /\ \A k \in 1..Len(gantt) :
         /\ gantt[k].PID = input[k].ProcessID
         /\ gantt[k].Stop - gantt[k].Start = input[k].BurstDuration
         /\ gantt[k].Stop = RowExit(schedule[k])
    /\ \A k \in 1..(Len(gantt) - 1) :
         /\ gantt[k].Start <= gantt[k + 1].Start
         /\ gantt[k].Stop <= gantt[k + 1].Start

\* An idle timestep lies between slices k and k+1.
IdleBetween(k) ==
  \E n \in 1..Len(ticks) :
    IdleTick(n) /\ gantt[k].Stop <= TickTime(n) /\ TickTime(n) < gantt[k + 1].Start

\* C9: the slices of SJFSchedule, SJFPrioritySchedule and RRSchedule are in
\* non-decreasing start order, each has stop > start, they do not overlap, and
\* adjacent slices with no idle timestep between them meet (stop = next start).
C9_SlicesOrdered ==
  alg \in {"SJF", "SJFPriority", "RR"} =>
    /\ \A k \in 1..Len(gantt) : gantt[k].Stop > gantt[k].Start
    /\ \A k \in 1..(Len(gantt) - 1) :
         /\ gantt[k].Start <= gantt[k + 1].Start
         /\ gantt[k].Stop <= gantt[k + 1].Start
         /\ ~IdleBetween(k) => gantt[k].Stop = gantt[k + 1].Start

\* A finished preemptive run with two slices that meet and two slices
\* separated by idle time.
C9_Witness ==
  /\ alg \in Preemptive /\ pc = "done"
  /\ \E k \in 1..(Len(gantt) - 1) :
       gantt[k].Stop = gantt[k + 1].Start /\ gantt[k].PID # gantt[k + 1].PID
  /\ \E k \in 1..(Len(gantt) - 1) : IdleBetween(k)

\* The index of the process with the given id.
IndexOf(pid) == CHOOSE k \in 1..Len(input) : input[k].ProcessID = pid

\* C10: every slice of SJFSchedule and SJFPrioritySchedule spans only timesteps
\* at which its process was the one selected, and on the input (arrival 0
\* burst 2), (arrival 5 burst 2) the first slice stops at 2 in both.
C10_SlicesOwned ==
  alg \in Preemptive =>
    /\ \A k \in 1..Len(gantt) :
         \A n \in 1..Len(ticks) :
           (gantt[k].Start <= TickTime(n) /\ TickTime(n) < gantt[k].Stop) =>
             ticks[n].sel = IndexOf(gantt[k].PID)
    /\ (input = IdleGapExample /\ Len(gantt) >= 1) => gantt[1].Stop = 2

NonRR == {"FCFS", "SJF", "SJFPriority"}

\* The numerator and denominator of a float64 division.
Num(r) == r[1]
Den(r) == r[2]

\* The aggregates handed to outputSchedule: wait, turnaround, throughput.
AveWait == stats[1]
AveTurnaround == stats[2]
Throughput == stats[3]

\* The completion time of the last process to complete, from the rows.
LastCompletionTime ==
  CHOOSE c \in {RowExit(schedule[k]) : k \in 1..Len(schedule)} :
    \A k \in 1..Len(schedule) : RowExit(schedule[k]) <= c

\* C11: for a non-empty input the throughput FCFSSchedule, SJFSchedule and
\* SJFPrioritySchedule hand to the report is processCount / lastCompletionTime.
C11_Throughput ==
  (alg \in NonRR /\ pc = "done" /\ Len(input) >= 1) =>
    /\ Den(Throughput) # 0
    /\ Num(Throughput) * LastCompletionTime = Len(input) * Den(Throughput)

\* C12: on an empty list FCFSSchedule, SJFSchedule and SJFPrioritySchedule
\* produce no row and no slice, and no aggregate is a division by zero.
C12_EmptyInput ==
  (alg \in NonRR /\ pc = "done" /\ Len(input) = 0) =>
    /\ Len(schedule) = 0
    /\ Len(gantt) = 0
    /\ Den(AveWait) # 0 /\ Den(AveTurnaround) # 0 /\ Den(Throughput) # 0

\* C13: FCFSSchedule, SJFSchedule and SJFPrioritySchedule leave the caller's
\* list as it was passed, and a second call of the same scheduler on the same
\* list yields the same rows and slices as the first.
C13_ListUnchanged ==
  /\ alg \in NonRR => processes = input
  /\ (pc = "done" /\ prev # <<>> /\ alg \in NonRR /\ prev[1].alg = alg) =>
       /\ input = prev[1].input
       /\ schedule = prev[1].schedule
       /\ gantt = prev[1].gantt

\* A second call of SJFSchedule that has returned, on a list on which the
\* first call preempted and decremented several processes.
C13_Witness ==
  /\ pc = "done" /\ prev # <<>>
  /\ alg = "SJF" /\ prev[1].alg = "SJF"
  /\ Len(input) >= 2
  /\ Len(gantt) >= 2

\* The position in the list procs of the process with the given id.
PosOf(procs, pid) == CHOOSE k \in 1..Len(procs) : procs[k].ProcessID = pid

\* C14: after the reordering of RRSchedule the list is in non-decreasing
\* arrivalTime order, is a permutation of the input, and processes of equal
\* arrivalTime keep the relative order they had in the input.
C14_StableSort ==
  (alg = "RR" /\ pc # "call") =>
    /\ Len(processes) = Len(input)
    /\ \A k \in 1..(Len(processes) - 1) :
         processes[k].ArrivalTime <= processes[k + 1].ArrivalTime
    /\ \A k \in 1..Len(input) :
         \E m \in 1..Len(processes) :
           /\ processes[m].ProcessID = input[k].ProcessID
           /\ processes[m].ArrivalTime = input[k].ArrivalTime
           /\ processes[m].Priority = input[k].Priority
    /\ \A a \in 1..Len(input), b \in 1..Len(input) :
         (a < b /\ input[a].ArrivalTime = input[b].ArrivalTime) =>
           PosOf(processes, input[a].ProcessID) < PosOf(processes, input[b].ProcessID)

RECURSIVE SumWaits(_, _)
SumWaits(rows, k) == IF k = 0 THEN 0 ELSE SumWaits(rows, k - 1) + RowWait(rows[k])

FinalTimes ==
  pc = "done" =>
    /\ \A k \in 1..Len(schedule) : RowTurnaround(schedule[k]) >= RowBurst(schedule[k])
    /\ SumWaits(schedule, Len(schedule)) >= 0

\* C15 as stated: on the SJF example process 3 runs at timestep 2, as soon as
\* it is eligible, and process 2 runs only after process 3 has run; at the end
\* every turnaround is at least the burst and the waits sum to at least 0.
C15_AsStated ==
  (alg = "SJF" /\ input = SJFExample) =>
    /\ Len(ticks) >= 3 => ticks[3].sel = 3
    /\ \A n \in 1..Len(ticks) :
         ticks[n].sel = 2 => \E m \in 1..(n - 1) : ticks[m].sel = 3
    /\ FinalTimes

\* The order in which SJFSchedule runs the processes of the SJF example.
SJFExampleOrder == <<1, 2, 2, 2, 3, 3, 1, 1, 1, 1>>

\* C15 amended: on the SJF example process 2 preempts process 1 at timestep 1,
\* as soon as it is eligible, and runs until it completes (timesteps 1-3; at
\* timestep 2 process 3 ties with it on remaining burst 2 and the lower index
\* wins), then process 3 runs (4-5), then process 1 (6-9); at the end every
\* turnaround is at least the burst and the waits sum to at least 0.
C15_SJFExample ==
  (alg = "SJF" /\ input = SJFExample) =>
    /\ Len(ticks) <= Len(SJFExampleOrder)
    /\ \A n \in 1..Len(ticks) : ticks[n].sel = SJFExampleOrder[n]
    /\ pc = "done" => Len(ticks) = Len(SJFExampleOrder)
    /\ FinalTimes

\* SJFSchedule has returned on the SJF example.
C15_Witness ==
  /\ alg = "SJF" /\ input = SJFExample /\ pc = "done"
  /\ Len(ticks) = Len(SJFExampleOrder)
  /\ RowExit(schedule[1]) > RowExit(schedule[3])

\* The ticks at which process k ran with one unit of burst left.
CompletionTicks(k) ==
  {n \in 1..Len(ticks) : ticks[n].sel = k /\ ticks[n].left[k] = 1}

\* C16: in SJFSchedule and SJFPrioritySchedule a process has a row exactly when
\* it has run its last unit, which happens once, at a timestep t, and the row
\* holds completion t + 1, turnaround completion - arrival and wait
\* completion - arrival - burst; the process is not selected after t, and
\* completion >= arrival + burst.
C16_CompletionRow ==
  alg \in Preemptive =>
    \A k \in 1..Len(schedule) :
      /\ schedule[k] # <<>> <=> CompletionTicks(k) # {}
      /\ Cardinality(CompletionTicks(k)) <= 1
      /\ \A n \in CompletionTicks(k) :
           LET completion == TickTime(n) + 1
           IN /\ RowExit(schedule[k]) = completion
              /\ RowTurnaround(schedule[k]) = completion - input[k].ArrivalTime
              /\ RowWait(schedule[k]) =
                   completion - input[k].ArrivalTime - input[k].BurstDuration
              /\ completion >= input[k].ArrivalTime + input[k].BurstDuration
              /\ \A m \in (n + 1)..Len(ticks) : ticks[m].sel # k

\* A finished preemptive run in which a process of burst 2 or more waited
\* and another process ran after the first completion.
C16_Witness ==
  /\ alg \in Preemptive /\ pc = "done"
  /\ \E k \in 1..Len(schedule) :
       /\ input[k].BurstDuration >= 2
       /\ schedule[k] # <<>>
       /\ RowWait(schedule[k]) > 0
  /\ \E k \in 1..Len(schedule), n \in 1..Len(ticks) :
       n \in CompletionTicks(k) /\ n < Len(ticks)

TimestepLoop == {"SJF", "SJFPriority", "RR"}

\* The burst durations the run started from.
OriginalBursts == IF alg = "RR" THEN processBurstInit ELSE Bursts(input)

\* C17: in SJFSchedule, SJFPrioritySchedule and RRSchedule every remaining burst
\* stays between 0 and the original burst, a timestep decrements at most one
\* process, by exactly 1, and never a process that has not arrived.
C17_RemainingBurst ==
  (alg \in TimestepLoop /\ pc # "call") =>
    /\ Len(ticks) = timestep
    /\ \A k \in 1..Len(processes) :
         0 <= CurrentLeft[k] /\ CurrentLeft[k] <= OriginalBursts[k]
    /\ \A n \in 1..Len(ticks) :
         IF IdleTick(n)
           THEN Changed(n) = {}
           ELSE /\ DecrementsOnly(n, ticks[n].sel)
                /\ processes[ticks[n].sel].ArrivalTime <= TickTime(n)

\* A finished round-robin run of two or more processes with an idle timestep,
\* in which a process ran at the very timestep it arrived.
C17_Witness ==
  /\ alg = "RR" /\ pc = "done"
  /\ Len(processes) >= 2
  /\ \E n \in 1..Len(ticks) : IdleTick(n)
  /\ \E n \in 1..Len(ticks) :
       ~IdleTick(n) /\ processes[ticks[n].sel].ArrivalTime = TickTime(n)

\* One step of the inner loop of RRSchedule, or the end of a pass.
RRStepRule ==
  IF i <= N
    THEN /\ i' = i + 1
         /\ IF processes[i].ArrivalTime <= timestep /\ processes[i].BurstDuration > 0
              THEN /\ processes' = [processes EXCEPT ![i].BurstDuration = @ - 1]
                   /\ timestep' = timestep + 1
                   /\ Len(gantt') = Len(gantt) + 1
                   /\ gantt'[Len(gantt')].PID = processes[i].ProcessID
                   /\ gantt'[Len(gantt')].Start = timestep
              ELSE UNCHANGED <<processes, timestep, gantt>>
    ELSE /\ UNCHANGED <<processes, gantt>>
         /\ timestep' = IF ranProcess THEN timestep ELSE timestep + 1

RRFinished ==
  /\ pc = "done"
  /\ \A k \in 1..Len(processes) : processes[k].BurstDuration = 0
  /\ SumSlices(gantt, Len(gantt)) = SumBursts(input, Len(input))

\* C18: every pass of RRSchedule visits the list front to back and gives each
\* process that is eligible when the scan reaches it one unit of time; every
\* slice has length 1; a pass in which nothing ran advances the time by one
\* idle unit; the passes repeat until every remaining burst is 0, when the loop
\* ends with the slice durations adding up to the original bursts.
C18_RRRotation ==
  /\ [](alg = "RR" => \A k \in 1..Len(gantt) : gantt[k].Stop = gantt[k].Start + 1)
  /\ [][(alg = "RR" /\ pc = "scan") => RRStepRule]_vars
  /\ (alg = "RR") ~> RRFinished

\* A finished round-robin run that began with an idle pass and in which a
\* process got its second unit after another process had its turn.
C18_Witness ==
  /\ alg = "RR" /\ RRFinished
  /\ Len(ticks) >= 1
  /\ IdleTick(1)
  /\ \E k \in 1..(Len(gantt) - 2) :
       gantt[k].PID = gantt[k + 2].PID /\ gantt[k].PID # gantt[k + 1].PID

\* The stop of the last slice of the process with the given id.
LastStop(pid) ==
  LET last == CHOOSE k \in 1..Len(gantt) :
                /\ gantt[k].PID = pid
                /\ \A m \in (k + 1)..Len(gantt) : gantt[m].PID # pid
  IN gantt[last].Stop

\* C19: the final row of every process of RRSchedule holds as completion the
\* stop of the process's last slice, turnaround = completion - arrival and
\* wait = completion - arrival - original burst.
C19_RRCompletion ==
  (alg = "RR" /\ pc = "done") =>
    \A k \in 1..Len(schedule) :
      schedule[k] # <<>> =>
        /\ RowExit(schedule[k]) = LastStop(processes[k].ProcessID)
        /\ RowTurnaround(schedule[k]) = RowExit(schedule[k]) - processes[k].ArrivalTime
        /\ RowWait(schedule[k]) =
             RowExit(schedule[k]) - processes[k].ArrivalTime - processBurstInit[k]

\* RRSchedule has returned: the caller's list is the input reordered by
\* arrival, with every burst at 0 and the other fields as they were.
RRInPlace ==
  (alg = "RR" /\ pc = "done") =>
    /\ Len(processes) = Len(input)
    /\ \A k \in 1..(Len(processes) - 1) :
         processes[k].ArrivalTime <= processes[k + 1].ArrivalTime
    /\ \A k \in 1..Len(processes) : processes[k].BurstDuration = 0
    /\ \A k \in 1..Len(input) :
         LET p == processes[PosOf(processes, input[k].ProcessID)]
         IN p.ArrivalTime = input[k].ArrivalTime /\ p.Priority = input[k].Priority

AfterRR == prev # <<>> /\ prev[1].alg = "RR"

NoWork == gantt = <<>> /\ \A n \in 1..Len(ticks) : IdleTick(n)

\* C20 as stated: RRSchedule leaves the caller's list reordered and with all
\* bursts 0, and any scheduler called next on that list runs no work tick and
\* emits no slice.
C20_AsStated ==
  /\ RRInPlace
  /\ AfterRR => NoWork

\* C20 amended: RRSchedule leaves the caller's list reordered and with all
\* bursts 0, and a second call of SJFSchedule, SJFPrioritySchedule or
\* RRSchedule on that list runs no work tick and emits no slice.
C20_InPlace ==
  /\ RRInPlace
  /\ (AfterRR /\ alg \in TimestepLoop) => NoWork

\* A timestep-loop scheduler has returned from a second call on a list of two
\* or more processes that a first call of RRSchedule had to reorder.
C20_Witness ==
  /\ AfterRR /\ alg \in TimestepLoop /\ pc = "done"
  /\ Len(input) >= 2
  /\ prev[1].input[1].ArrivalTime > prev[1].input[2].ArrivalTime
  /\ input[1].ArrivalTime < input[2].ArrivalTime

====
